---- MODULE Spec2Model ----
(***************************************************************************)
(* Milestone escrow program (programs/contract/src/lib.rs).                *)
(*                                                                         *)
(* One escrow account (the PDA of one recruiter and job id), the lamport   *)
(* balances of the accounts the six instructions touch, and the six        *)
(* instructions.  Every instruction is one atomic step: it either commits  *)
(* (account data and lamports change together) or aborts with an error     *)
(* and changes nothing.                                                    *)
(*                                                                         *)
(* u64 values are kept modulo 2^U64Bits.  Whether u64 arithmetic panics    *)
(* or wraps on overflow is a property of the build profile, which is not   *)
(* fixed by lib.rs: overflow_checks is chosen in Init and never changes.   *)
(*                                                                         *)
(* Of the runtime the model keeps what the handlers rely on: the account   *)
(* validation of the #[derive(Accounts)] structs, the rent deposit paid at *)
(* init and returned at close, and the rule that an instruction must not   *)
(* change the sum of the lamports.  The rent-exemption rule for balances   *)
(* between zero and the deposit is not modelled.                           *)
(***************************************************************************)
EXTENDS Integers, Sequences, FiniteSets, TLC

\* ------------------------------------------------------------------ bounds
U64Bits == 4
RentExempt == 1
RecruiterFunds == 5

U64Mod == 2 ^ U64Bits
U64Max == U64Mod - 1

\* --------------------------------------------------------------- constants
PLATFORM_AUTHORITY == "plat"
MaxJobIdLen == 50
NumMilestones == 3
U8Max == 255

Keys == {"rec", "fre", PLATFORM_AUTHORITY}
ESCROW == "escrow"
Accounts == Keys \cup {ESCROW}
Slots == 0 .. (NumMilestones - 1)

\* inputs of the instructions
CreateSigners == {"rec"}
FreelancerInputs == {"fre"}
JobIds == {"job-A", "job-0123456789012345678901234567890123456789012345x"}
AmountInputs == {0, 1, 2, U64Max}
IndexInputs == 0 .. NumMilestones
OutOfRangeInputs == {NumMilestones, U8Max}
WithdrawInputs == {0, 1, 2, RentExempt + 3}

OK == "Ok"
\* errors raised outside the ErrorCode enum
PANIC == "ArithmeticOverflowPanic"
UNBALANCED == "UnbalancedInstruction"
NOT_INITIALIZED == "AccountNotInitialized"
ALREADY_IN_USE == "AccountAlreadyInUse"
HAS_ONE == "ConstraintHasOne"
INSUFFICIENT_FUNDS == "InsufficientFunds"

ErrorCode ==
  { "JobIdTooLong", "InvalidMilestoneAmount", "InvalidMilestoneIndex",
    "MilestoneAlreadyApproved", "MilestoneNotApproved", "MilestoneAlreadyClaimed",
    "CannotCancelAfterApproval", "InsufficientEscrowBalance",
    "UnauthorizedPlatformAccess" }

VARIABLES
  overflow_checks,  \* build profile: TRUE = u64 overflow panics, FALSE = wraps
  escrow,           \* data of the escrow account (struct Escrow)
  lamports,         \* lamport balance of every account
  call,             \* the last instruction processed and its result
  hist              \* bookkeeping of the current record's life (observation only)

vars == <<overflow_checks, escrow, lamports, call, hist>>

\* ------------------------------------------------------------ account data
NoFlags == [i \in Slots |-> FALSE]

\* an account that holds no Escrow (never created, or closed)
Closed ==
  [ initialized |-> FALSE, recruiter |-> "", freelancer |-> "", job_id |-> "",
    milestone_amounts |-> [i \in Slots |-> 0],
    milestones_approved |-> NoFlags, milestones_claimed |-> NoFlags ]

Escrow(recruiter, freelancer, job_id, milestone_amounts) ==
  [ initialized |-> TRUE, recruiter |-> recruiter, freelancer |-> freelancer,
    job_id |-> job_id, milestone_amounts |-> milestone_amounts,
    milestones_approved |-> NoFlags, milestones_claimed |-> NoFlags ]

\* ---------------------------------------------------------- u64 arithmetic
\* a subtraction that neither wraps nor reports the underflow
SubUnchecked(a, b) == [val |-> a - b, ovf |-> FALSE]

\* a - b and a + b on u64: the wrapped value, and whether it overflowed
SubU64(a, b) == [val |-> (a - b) % U64Mod, ovf |-> a < b]

AddU64(a, b) == [val |-> (a + b) % U64Mod, ovf |-> a + b > U64Max]

\* Iterator::sum::<u64>() over the amounts of the slots in `keep`, in order
RECURSIVE SumFrom(_, _, _)
SumFrom(amounts, keep, i) ==
  IF i >= NumMilestones THEN [val |-> 0, ovf |-> FALSE]
  ELSE LET rest == SumFrom(amounts, keep, i + 1)
           term == IF i \in keep THEN amounts[i] ELSE 0
           s    == AddU64(term, rest.val)
       IN [val |-> s.val, ovf |-> s.ovf \/ rest.ovf]

SumU64(amounts, keep) == SumFrom(amounts, keep, 0)

\* the integer sum, without width
TrueSum(amounts, keep) ==
  LET a(i) == IF i \in keep THEN amounts[i] ELSE 0 IN a(0) + a(1) + a(2)

AnyApproved(e) == \E i \in Slots : e.milestones_approved[i]
Unclaimed(e) == {i \in Slots : ~e.milestones_claimed[i]}

\* ------------------------------------------------------- instruction results
Fail(err) == [err |-> err, escrow |-> escrow, lamports |-> lamports]
Done(e, l) == [err |-> OK, escrow |-> e, lamports |-> l]

\* move `amount` lamports by `-=` on `from` and `+=` on `to`
Move(l, from, to, amount) ==
  LET d  == SubU64(l[from], amount)
      l1 == [l EXCEPT ![from] = d.val]
      c  == AddU64(l1[to], amount)
      l2 == [l1 EXCEPT ![to] = c.val]
  IN [lamports |-> l2, ovf |-> d.ovf \/ c.ovf]

TotalSupply(l) == l["rec"] + l["fre"] + l[PLATFORM_AUTHORITY] + l[ESCROW]

\* ------------------------------------------------------------- instructions
\* system_program::transfer: fails when `from` cannot pay
SystemTransfer(l, from, to, amount) ==
  IF l[from] < amount \/ Move(l, from, to, amount).ovf
  THEN [ok |-> FALSE, lamports |-> l]
  ELSE [ok |-> TRUE, lamports |-> Move(l, from, to, amount).lamports]

\* #[account(init, payer = recruiter, space = ..)]: the payer funds the rent
\* deposit of the new account
InitEscrow(l, payer) == SystemTransfer(l, payer, ESCROW, RentExempt)

\* #[account(close = dest)]: all lamports of the escrow go to dest (checked
\* add), the account data is wiped
CloseEscrow(l, dest) ==
  LET c == AddU64(l[dest], l[ESCROW])
  IN [ok |-> ~c.ovf, lamports |-> [l EXCEPT ![dest] = c.val, ![ESCROW] = 0]]

\* create_job_escrow that validates the amounts before the job_id length
create_job_escrow_amounts_first(recruiter, job_id, freelancer, milestone_amounts) ==
  LET init == InitEscrow(lamports, recruiter)
      total_amount == SumU64(milestone_amounts, Slots)
      paid == SystemTransfer(init.lamports, recruiter, ESCROW, total_amount.val)
  IN IF escrow.initialized THEN Fail(ALREADY_IN_USE)
     ELSE IF ~init.ok THEN Fail(INSUFFICIENT_FUNDS)
     ELSE IF ~(\A i \in Slots : milestone_amounts[i] > 0)
       THEN Fail("InvalidMilestoneAmount")
     ELSE IF ~(Len(job_id) <= MaxJobIdLen) THEN Fail("JobIdTooLong")
     ELSE IF overflow_checks /\ total_amount.ovf THEN Fail(PANIC)
     ELSE IF ~paid.ok THEN Fail(INSUFFICIENT_FUNDS)
     ELSE Done(Escrow(recruiter, freelancer, job_id, milestone_amounts),
               paid.lamports)

create_job_escrow(recruiter, job_id, freelancer, milestone_amounts) ==
  LET init == InitEscrow(lamports, recruiter)
      total_amount == SumU64(milestone_amounts, Slots)
      paid == SystemTransfer(init.lamports, recruiter, ESCROW, total_amount.val)
  IN IF escrow.initialized THEN Fail(ALREADY_IN_USE)
     ELSE IF ~init.ok THEN Fail(INSUFFICIENT_FUNDS)
     ELSE IF ~(Len(job_id) <= MaxJobIdLen) THEN Fail("JobIdTooLong")
     ELSE IF ~(\A i \in Slots : milestone_amounts[i] > 0)
       THEN Fail("InvalidMilestoneAmount")
     ELSE IF overflow_checks /\ total_amount.ovf THEN Fail(PANIC)
     ELSE IF ~paid.ok THEN Fail(INSUFFICIENT_FUNDS)
     ELSE Done(Escrow(recruiter, freelancer, job_id, milestone_amounts),
               paid.lamports)

\* approve_milestone whose account struct lacks has_one = recruiter
approve_milestone_any_signer(recruiter, milestone_index) ==
  IF ~escrow.initialized THEN Fail(NOT_INITIALIZED)
  ELSE IF ~(milestone_index < NumMilestones) THEN Fail("InvalidMilestoneIndex")
  ELSE IF escrow.milestones_approved[milestone_index]
    THEN Fail("MilestoneAlreadyApproved")
  ELSE Done([escrow EXCEPT !.milestones_approved[milestone_index] = TRUE],
            lamports)

\* approve_milestone that reduces the index modulo 3 instead of checking it
approve_milestone_wrapped_index(recruiter, milestone_index) ==
  LET i == milestone_index % NumMilestones
  IN IF ~escrow.initialized THEN Fail(NOT_INITIALIZED)
     ELSE IF escrow.recruiter # recruiter THEN Fail(HAS_ONE)
     ELSE IF escrow.milestones_approved[i] THEN Fail("MilestoneAlreadyApproved")
     ELSE Done([escrow EXCEPT !.milestones_approved[i] = TRUE], lamports)

\* approve_milestone that flips the flag instead of refusing a repeat
approve_milestone_toggle(recruiter, milestone_index) ==
  IF ~escrow.initialized THEN Fail(NOT_INITIALIZED)
  ELSE IF escrow.recruiter # recruiter THEN Fail(HAS_ONE)
  ELSE IF ~(milestone_index < NumMilestones) THEN Fail("InvalidMilestoneIndex")
  ELSE Done([escrow EXCEPT !.milestones_approved[milestone_index] =
                             ~escrow.milestones_approved[milestone_index]],
            lamports)

approve_milestone(recruiter, milestone_index) ==
  IF ~escrow.initialized THEN Fail(NOT_INITIALIZED)
  ELSE IF escrow.recruiter # recruiter THEN Fail(HAS_ONE)
  ELSE IF ~(milestone_index < NumMilestones) THEN Fail("InvalidMilestoneIndex")
  ELSE IF escrow.milestones_approved[milestone_index]
    THEN Fail("MilestoneAlreadyApproved")
  ELSE Done([escrow EXCEPT !.milestones_approved[milestone_index] = TRUE],
            lamports)

\* claim_milestone without the MilestoneAlreadyClaimed guard
claim_milestone_unguarded(freelancer, milestone_index) ==
  IF ~escrow.initialized THEN Fail(NOT_INITIALIZED)
  ELSE IF escrow.freelancer # freelancer THEN Fail(HAS_ONE)
  ELSE IF ~(milestone_index < NumMilestones) THEN Fail("InvalidMilestoneIndex")
  ELSE IF ~escrow.milestones_approved[milestone_index]
    THEN Fail("MilestoneNotApproved")
  ELSE LET amount == escrow.milestone_amounts[milestone_index]
           m == Move(lamports, ESCROW, freelancer, amount)
       IN IF overflow_checks /\ m.ovf THEN Fail(PANIC)
          ELSE Done([escrow EXCEPT !.milestones_claimed[milestone_index] = TRUE],
                    m.lamports)

\* claim_milestone without the MilestoneNotApproved guard
claim_milestone_unapproved(freelancer, milestone_index) ==
  IF ~escrow.initialized THEN Fail(NOT_INITIALIZED)
  ELSE IF escrow.freelancer # freelancer THEN Fail(HAS_ONE)
  ELSE IF ~(milestone_index < NumMilestones) THEN Fail("InvalidMilestoneIndex")
  ELSE IF escrow.milestones_claimed[milestone_index]
    THEN Fail("MilestoneAlreadyClaimed")
  ELSE LET amount == escrow.milestone_amounts[milestone_index]
           m == Move(lamports, ESCROW, freelancer, amount)
       IN IF overflow_checks /\ m.ovf THEN Fail(PANIC)
          ELSE Done([escrow EXCEPT !.milestones_claimed[milestone_index] = TRUE],
                    m.lamports)

\* claim_milestone whose approval guard reads slot 0 whatever the index
claim_milestone_slot0_guard(freelancer, milestone_index) ==
  IF ~escrow.initialized THEN Fail(NOT_INITIALIZED)
  ELSE IF escrow.freelancer # freelancer THEN Fail(HAS_ONE)
  ELSE IF ~(milestone_index < NumMilestones) THEN Fail("InvalidMilestoneIndex")
  ELSE IF ~escrow.milestones_approved[0]
    THEN Fail("MilestoneNotApproved")
  ELSE IF escrow.milestones_claimed[milestone_index]
    THEN Fail("MilestoneAlreadyClaimed")
  ELSE LET amount == escrow.milestone_amounts[milestone_index]
           m == Move(lamports, ESCROW, freelancer, amount)
       IN IF overflow_checks /\ m.ovf THEN Fail(PANIC)
          ELSE Done([escrow EXCEPT !.milestones_claimed[milestone_index] = TRUE],
                    m.lamports)

\* claim_milestone that pays the amount of slot 0 whatever the index
claim_milestone_slot0_amount(freelancer, milestone_index) ==
  IF ~escrow.initialized THEN Fail(NOT_INITIALIZED)
  ELSE IF escrow.freelancer # freelancer THEN Fail(HAS_ONE)
  ELSE IF ~(milestone_index < NumMilestones) THEN Fail("InvalidMilestoneIndex")
  ELSE IF ~escrow.milestones_approved[milestone_index]
    THEN Fail("MilestoneNotApproved")
  ELSE IF escrow.milestones_claimed[milestone_index]
    THEN Fail("MilestoneAlreadyClaimed")
  ELSE LET amount == escrow.milestone_amounts[0]
           m == Move(lamports, ESCROW, freelancer, amount)
       IN IF overflow_checks /\ m.ovf THEN Fail(PANIC)
          ELSE Done([escrow EXCEPT !.milestones_claimed[milestone_index] = TRUE],
                    m.lamports)

\* claim_milestone that accepts only the indices 0 and 1
claim_milestone_two_slots(freelancer, milestone_index) ==
  IF ~escrow.initialized THEN Fail(NOT_INITIALIZED)
  ELSE IF escrow.freelancer # freelancer THEN Fail(HAS_ONE)
  ELSE IF ~(milestone_index < NumMilestones - 1) THEN Fail("InvalidMilestoneIndex")
  ELSE IF ~escrow.milestones_approved[milestone_index]
    THEN Fail("MilestoneNotApproved")
  ELSE IF escrow.milestones_claimed[milestone_index]
    THEN Fail("MilestoneAlreadyClaimed")
  ELSE LET amount == escrow.milestone_amounts[milestone_index]
           m == Move(lamports, ESCROW, freelancer, amount)
       IN IF overflow_checks /\ m.ovf THEN Fail(PANIC)
          ELSE Done([escrow EXCEPT !.milestones_claimed[milestone_index] = TRUE],
                    m.lamports)

claim_milestone(freelancer, milestone_index) ==
  IF ~escrow.initialized THEN Fail(NOT_INITIALIZED)
  ELSE IF escrow.freelancer # freelancer THEN Fail(HAS_ONE)
  ELSE IF ~(milestone_index < NumMilestones) THEN Fail("InvalidMilestoneIndex")
  ELSE IF ~escrow.milestones_approved[milestone_index]
    THEN Fail("MilestoneNotApproved")
  ELSE IF escrow.milestones_claimed[milestone_index]
    THEN Fail("MilestoneAlreadyClaimed")
  ELSE LET amount == escrow.milestone_amounts[milestone_index]
           m == Move(lamports, ESCROW, freelancer, amount)
       IN IF overflow_checks /\ m.ovf THEN Fail(PANIC)
          ELSE Done([escrow EXCEPT !.milestones_claimed[milestone_index] = TRUE],
                    m.lamports)

\* cancel_job that refuses only when all three milestones are approved
cancel_job_all_approved(recruiter) ==
  IF ~escrow.initialized THEN Fail(NOT_INITIALIZED)
  ELSE IF escrow.recruiter # recruiter THEN Fail(HAS_ONE)
  ELSE IF \A i \in Slots : escrow.milestones_approved[i]
    THEN Fail("CannotCancelAfterApproval")
  ELSE LET remaining_balance == SumU64(escrow.milestone_amounts, Unclaimed(escrow))
           m == Move(lamports, ESCROW, recruiter, remaining_balance.val)
           closed == CloseEscrow(m.lamports, recruiter)
       IN IF overflow_checks /\ (remaining_balance.ovf \/ m.ovf) THEN Fail(PANIC)
          ELSE IF ~closed.ok THEN Fail(PANIC)
          ELSE Done(Closed, closed.lamports)

\* cancel_job whose account is not closed on exit
cancel_job_no_close(recruiter) ==
  IF ~escrow.initialized THEN Fail(NOT_INITIALIZED)
  ELSE IF escrow.recruiter # recruiter THEN Fail(HAS_ONE)
  ELSE IF AnyApproved(escrow) THEN Fail("CannotCancelAfterApproval")
  ELSE LET remaining_balance == SumU64(escrow.milestone_amounts, Unclaimed(escrow))
           m == Move(lamports, ESCROW, recruiter, remaining_balance.val)
       IN IF overflow_checks /\ (remaining_balance.ovf \/ m.ovf) THEN Fail(PANIC)
          ELSE Done(escrow, m.lamports)

cancel_job(recruiter) ==
  IF ~escrow.initialized THEN Fail(NOT_INITIALIZED)
  ELSE IF escrow.recruiter # recruiter THEN Fail(HAS_ONE)
  ELSE IF AnyApproved(escrow) THEN Fail("CannotCancelAfterApproval")
  ELSE LET remaining_balance == SumU64(escrow.milestone_amounts, Unclaimed(escrow))
           m == Move(lamports, ESCROW, recruiter, remaining_balance.val)
           closed == CloseEscrow(m.lamports, recruiter)
       IN IF overflow_checks /\ (remaining_balance.ovf \/ m.ovf) THEN Fail(PANIC)
          ELSE IF ~closed.ok THEN Fail(PANIC)
          ELSE Done(Closed, closed.lamports)

\* platform_withdraw that requires amount < escrow_balance
platform_withdraw_strict(platform_authority, amount) ==
  IF ~escrow.initialized THEN Fail(NOT_INITIALIZED)
  ELSE IF platform_authority # PLATFORM_AUTHORITY
    THEN Fail("UnauthorizedPlatformAccess")
  ELSE LET escrow_balance == lamports[ESCROW]
           m == Move(lamports, ESCROW, platform_authority, amount)
       IN IF ~(amount < escrow_balance) THEN Fail("InsufficientEscrowBalance")
          ELSE IF overflow_checks /\ m.ovf THEN Fail(PANIC)
          ELSE Done(escrow, m.lamports)

\* platform_withdraw that also marks milestone 0 as claimed
platform_withdraw_marking(platform_authority, amount) ==
  IF ~escrow.initialized THEN Fail(NOT_INITIALIZED)
  ELSE IF platform_authority # PLATFORM_AUTHORITY
    THEN Fail("UnauthorizedPlatformAccess")
  ELSE LET escrow_balance == lamports[ESCROW]
           m == Move(lamports, ESCROW, platform_authority, amount)
       IN IF ~(amount <= escrow_balance) THEN Fail("InsufficientEscrowBalance")
          ELSE IF overflow_checks /\ m.ovf THEN Fail(PANIC)
          ELSE Done([escrow EXCEPT !.milestones_claimed[0] = TRUE], m.lamports)

platform_withdraw(platform_authority, amount) ==
  IF ~escrow.initialized THEN Fail(NOT_INITIALIZED)
  ELSE IF platform_authority # PLATFORM_AUTHORITY
    THEN Fail("UnauthorizedPlatformAccess")
  ELSE LET escrow_balance == lamports[ESCROW]
           m == Move(lamports, ESCROW, platform_authority, amount)
       IN IF ~(amount <= escrow_balance) THEN Fail("InsufficientEscrowBalance")
          ELSE IF overflow_checks /\ m.ovf THEN Fail(PANIC)
          ELSE Done(escrow, m.lamports)

\* platform_emergency_close whose account struct lacks the address constraint
platform_emergency_close_any_signer(platform_authority) ==
  IF ~escrow.initialized THEN Fail(NOT_INITIALIZED)
  ELSE LET escrow_balance == lamports[ESCROW]
           c == AddU64(lamports[platform_authority], escrow_balance)
           l2 == [lamports EXCEPT ![ESCROW] = 0, ![platform_authority] = c.val]
           closed == CloseEscrow(l2, platform_authority)
       IN IF overflow_checks /\ c.ovf THEN Fail(PANIC)
          ELSE IF ~closed.ok THEN Fail(PANIC)
          ELSE Done(Closed, closed.lamports)

\* platform_emergency_close that returns the balance to the stored recruiter
platform_emergency_close_to_recruiter(platform_authority) ==
  IF ~escrow.initialized THEN Fail(NOT_INITIALIZED)
  ELSE IF platform_authority # PLATFORM_AUTHORITY
    THEN Fail("UnauthorizedPlatformAccess")
  ELSE LET escrow_balance == lamports[ESCROW]
           c == AddU64(lamports[escrow.recruiter], escrow_balance)
           l2 == [lamports EXCEPT ![ESCROW] = 0, ![escrow.recruiter] = c.val]
           closed == CloseEscrow(l2, escrow.recruiter)
       IN IF overflow_checks /\ c.ovf THEN Fail(PANIC)
          ELSE IF ~closed.ok THEN Fail(PANIC)
          ELSE Done(Closed, closed.lamports)

platform_emergency_close(platform_authority) ==
  IF ~escrow.initialized THEN Fail(NOT_INITIALIZED)
  ELSE IF platform_authority # PLATFORM_AUTHORITY
    THEN Fail("UnauthorizedPlatformAccess")
  ELSE LET escrow_balance == lamports[ESCROW]
           c == AddU64(lamports[platform_authority], escrow_balance)
           l2 == [lamports EXCEPT ![ESCROW] = 0, ![platform_authority] = c.val]
           closed == CloseEscrow(l2, platform_authority)
       IN IF overflow_checks /\ c.ovf THEN Fail(PANIC)
          ELSE IF ~closed.ok THEN Fail(PANIC)
          ELSE Done(Closed, closed.lamports)

\* ------------------------------------------------- observation of one life
Pos(n) == IF n > 0 THEN n ELSE 0

\* lamports the users' accounts lost / gained between l and l2
PaidIn(l, l2) ==
  Pos(l["rec"] - l2["rec"]) + Pos(l["fre"] - l2["fre"])
    + Pos(l[PLATFORM_AUTHORITY] - l2[PLATFORM_AUTHORITY])

PaidOut(l, l2) ==
  Pos(l2["rec"] - l["rec"]) + Pos(l2["fre"] - l["fre"])
    + Pos(l2[PLATFORM_AUTHORITY] - l[PLATFORM_AUTHORITY])

NewLife(caller, l, l2) ==
  [ ever_approved |-> FALSE, claim_ok |-> [i \in Slots |-> 0],
    deposited |-> PaidIn(l, l2), paid_out |-> PaidOut(l, l2),
    before_create |-> l[caller] ]

Observe(op, caller, arg, l2) ==
  IF op = "create_job_escrow" THEN NewLife(caller, lamports, l2)
  ELSE [ hist EXCEPT
           !.ever_approved = @ \/ op = "approve_milestone",
           !.claim_ok = IF op = "claim_milestone"
                        THEN [@ EXCEPT ![arg] = IF @ < 2 THEN @ + 1 ELSE 2]
                        ELSE @,
           !.deposited = @ + PaidIn(lamports, l2),
           !.paid_out = @ + PaidOut(lamports, l2) ]

\* ------------------------------------------------------------ the runtime
\* One instruction is one transaction: the result r of the handler is
\* committed as a whole, or nothing is.  The ledger rejects an instruction
\* that changes the sum of the lamports of its accounts.
Run(r) ==
  IF r.err = OK /\ TotalSupply(r.lamports) # TotalSupply(lamports)
  THEN Fail(UNBALANCED) ELSE r

Process(op, caller, arg, r) ==
  LET out == Run(r)
  IN /\ call' = [op |-> op, result |-> out.err]
     /\ escrow' = out.escrow
     /\ lamports' = out.lamports
     /\ hist' = IF out.err = OK THEN Observe(op, caller, arg, out.lamports)
                ELSE hist
     /\ UNCHANGED overflow_checks

CreateJobEscrow ==
  \E recruiter \in CreateSigners, job_id \in JobIds, freelancer \in FreelancerInputs,
     milestone_amounts \in [Slots -> AmountInputs] :
    Process("create_job_escrow", recruiter, 0,
            create_job_escrow(recruiter, job_id, freelancer, milestone_amounts))

ApproveMilestone ==
  \E recruiter \in Keys, milestone_index \in IndexInputs :
    Process("approve_milestone", recruiter, milestone_index,
            approve_milestone(recruiter, milestone_index))

ClaimMilestone ==
  \E freelancer \in Keys, milestone_index \in IndexInputs :
    Process("claim_milestone", freelancer, milestone_index,
            claim_milestone(freelancer, milestone_index))

CancelJob ==
  \E recruiter \in Keys :
    Process("cancel_job", recruiter, 0, cancel_job(recruiter))

PlatformWithdraw ==
  \E platform_authority \in Keys, amount \in WithdrawInputs :
    Process("platform_withdraw", platform_authority, amount,
            platform_withdraw(platform_authority, amount))

PlatformEmergencyClose ==
  \E platform_authority \in Keys :
    Process("platform_emergency_close", platform_authority, 0,
            platform_emergency_close(platform_authority))

Init ==
  /\ overflow_checks \in BOOLEAN
  /\ escrow = Closed
  /\ lamports = [a \in Accounts |->
                   IF a \in CreateSigners THEN RecruiterFunds ELSE 0]
  /\ call = [op |-> "none", result |-> OK]
  /\ hist = [ ever_approved |-> FALSE, claim_ok |-> [i \in Slots |-> 0],
              deposited |-> 0, paid_out |-> 0, before_create |-> 0 ]

Next ==
  \/ CreateJobEscrow
  \/ ApproveMilestone
  \/ ClaimMilestone
  \/ CancelJob
  \/ PlatformWithdraw
  \/ PlatformEmergencyClose

Spec == Init /\ [][Next]_vars

\* the four instructions of the recruiter and the freelancer only
NextNoPlatform ==
  \/ CreateJobEscrow
  \/ ApproveMilestone
  \/ ClaimMilestone
  \/ CancelJob

SpecNoPlatform == Init /\ [][NextNoPlatform]_vars

\* ----------------------------------------------------------------- claims
\* the calls of the three parties acting in their own role with
\* well-formed arguments; a call that fails changes only `call`
CreateByRecruiter ==
  \E recruiter \in CreateSigners, freelancer \in FreelancerInputs,
     job_id \in {j \in JobIds : Len(j) <= MaxJobIdLen},
     milestone_amounts \in [Slots -> AmountInputs \ {0}] :
    /\ hist.before_create = 0
    /\ Process("create_job_escrow", recruiter, 0,
               create_job_escrow(recruiter, job_id, freelancer, milestone_amounts))

ApproveByRecruiter ==
  \E milestone_index \in Slots :
    Process("approve_milestone", escrow.recruiter, milestone_index,
            approve_milestone(escrow.recruiter, milestone_index))

ClaimByFreelancer ==
  \E milestone_index \in Slots :
    Process("claim_milestone", escrow.freelancer, milestone_index,
            claim_milestone(escrow.freelancer, milestone_index))

CancelByRecruiter ==
  Process("cancel_job", escrow.recruiter, 0, cancel_job(escrow.recruiter))

WithdrawByPlatform ==
  \E amount \in WithdrawInputs :
    Process("platform_withdraw", PLATFORM_AUTHORITY, amount,
            platform_withdraw(PLATFORM_AUTHORITY, amount))

CloseByPlatform ==
  Process("platform_emergency_close", PLATFORM_AUTHORITY, 0,
          platform_emergency_close(PLATFORM_AUTHORITY))

NextParties ==
  \/ CreateByRecruiter
  \/ ApproveByRecruiter
  \/ ClaimByFreelancer
  \/ CancelByRecruiter
  \/ WithdrawByPlatform
  \/ CloseByPlatform

\* an approve_milestone of the stored recruiter that commits
RecruiterApproves == ApproveByRecruiter /\ call'.result = OK

\* a claim_milestone of the stored freelancer that commits
FreelancerClaims == ClaimByFreelancer /\ call'.result = OK

\* the recruiter keeps approving and the freelancer keeps claiming for as long
\* as such a call can commit; the platform authority may withdraw or close at
\* any time
FairSpec ==
  Init /\ [][NextParties]_vars
       /\ WF_vars(RecruiterApproves) /\ WF_vars(FreelancerClaims)

\* ----------------------------------------------------------------- claims
Live == escrow.initialized

\* the outcome of an instruction that changes nothing
Rejected(out) == out.err # OK /\ out.escrow = escrow /\ out.lamports = lamports

\* lamports after `amount` went from the escrow to the account `to`
Paid(to, amount) ==
  [a \in Accounts |->
     IF a = ESCROW THEN lamports[a] - amount
     ELSE IF a = to THEN lamports[a] + amount ELSE lamports[a]]

InitialSupply ==
  Cardinality(CreateSigners) * RecruiterFunds

\* C1: no double pay.  In one life of the record claim_milestone(i) commits
\* at most once for every slot i; once it has, the slot is marked claimed,
\* and in every state where slot i is claimed a further claim_milestone(i)
\* is rejected by any caller, with MilestoneAlreadyClaimed when the stored
\* freelancer calls, and moves no lamports.
NoDoublePay ==
  \A i \in Slots :
    /\ hist.claim_ok[i] <= 1
    /\ Live /\ hist.claim_ok[i] = 1 => escrow.milestones_claimed[i]
    /\ Live /\ escrow.milestones_claimed[i] =>
         /\ \A k \in Keys : Rejected(Run(claim_milestone(k, i)))
         /\ Run(claim_milestone(escrow.freelancer, i)).err = "MilestoneAlreadyClaimed"

SecondClaimRejected ==
  /\ Live
  /\ call = [op |-> "claim_milestone", result |-> "MilestoneAlreadyClaimed"]
  /\ \E i \in Slots : hist.claim_ok[i] = 1 /\ escrow.milestones_claimed[i]

\* C2 (I1): in every reachable state a claimed milestone is an approved one.
ClaimedImpliesApproved ==
  \A i \in Slots : escrow.milestones_claimed[i] => escrow.milestones_approved[i]

SomeMilestoneClaimed ==
  /\ Live
  /\ call = [op |-> "claim_milestone", result |-> OK]
  /\ \E i \in Slots : escrow.milestones_claimed[i]
  /\ \E i \in Slots : ~escrow.milestones_approved[i]

\* C3: approval gates claim.  On a live record, in every reachable state,
\* claim_milestone(i) on a slot that is not approved is rejected for every
\* caller and changes nothing; when the stored freelancer calls (the handler
\* is reached) the error is MilestoneNotApproved.
ApprovalGatesClaim ==
  \A i \in Slots :
    Live /\ ~escrow.milestones_approved[i] =>
      /\ \A k \in Keys : Rejected(Run(claim_milestone(k, i)))
      /\ Run(claim_milestone(escrow.freelancer, i)).err = "MilestoneNotApproved"

UnapprovedClaimRejected ==
  /\ Live
  /\ call = [op |-> "claim_milestone", result |-> "MilestoneNotApproved"]
  /\ \E i \in Slots : escrow.milestones_approved[i]
  /\ \E i \in Slots : ~escrow.milestones_approved[i]

\* C4: cancellation lockout.  Once approve_milestone has committed in the
\* life of a record, in every later state of that life cancel_job is rejected
\* for every caller, with CannotCancelAfterApproval for the stored recruiter,
\* and no cancel_job commits in a life in which an approval has.
CancellationLockout ==
  /\ Live /\ hist.ever_approved =>
       /\ \A k \in Keys : Rejected(Run(cancel_job(k)))
       /\ Run(cancel_job(escrow.recruiter)).err = "CannotCancelAfterApproval"
  /\ ~(call = [op |-> "cancel_job", result |-> OK] /\ hist.ever_approved)

CancelAfterApprovalRejected ==
  /\ Live
  /\ hist.ever_approved
  /\ call = [op |-> "cancel_job", result |-> "CannotCancelAfterApproval"]
  /\ \E i \in Slots : escrow.milestones_claimed[i]
  /\ lamports[PLATFORM_AUTHORITY] > 0

ClaimAlwaysAvailable ==
  \A i \in Slots :
    Live /\ escrow.milestones_approved[i] /\ ~escrow.milestones_claimed[i] =>
      LET out == Run(claim_milestone(escrow.freelancer, i))
      IN /\ out.err = OK
         /\ out.lamports = Paid(escrow.freelancer, escrow.milestone_amounts[i])
         /\ out.escrow = [escrow EXCEPT !.milestones_claimed[i] = TRUE]

\* C6 amended: the same, in the states where the record holds at least
\* milestone_amounts[i] on top of its rent deposit.
ClaimAvailableWhenFunded ==
  \A i \in Slots :
    /\ Live /\ escrow.milestones_approved[i] /\ ~escrow.milestones_claimed[i]
    /\ lamports[ESCROW] >= escrow.milestone_amounts[i] + RentExempt
    => LET out == Run(claim_milestone(escrow.freelancer, i))
       IN /\ out.err = OK
          /\ out.lamports = Paid(escrow.freelancer, escrow.milestone_amounts[i])
          /\ out.escrow = [escrow EXCEPT !.milestones_claimed[i] = TRUE]

\* a claim has been paid although platform_withdraw had left the record
\* with less than its unclaimed amounts
ClaimedAfterWithdraw ==
  /\ Live
  /\ call = [op |-> "claim_milestone", result |-> OK]
  /\ overflow_checks
  /\ lamports[PLATFORM_AUTHORITY] > 0
  /\ lamports[ESCROW] >= RentExempt
  /\ lamports[ESCROW] < RentExempt + TrueSum(escrow.milestone_amounts, Unclaimed(escrow))

\* C7 (I3): in every state of a live record reached without the platform
\* instructions, the record holds at least the sum of the amounts of its
\* unclaimed milestones.
HeldCoversUnclaimed ==
  Live => lamports[ESCROW] >= TrueSum(escrow.milestone_amounts, Unclaimed(escrow))

\* rejections by the account validation that precedes a handler
HostRejections == {HAS_ONE, NOT_INITIALIZED, ALREADY_IN_USE, INSUFFICIENT_FUNDS}

\* C8: fail closed.  Every rejected instruction returns an error of the
\* ErrorCode enum or a rejection of the account validation, and leaves the
\* record and all balances as they were.
FailClosedTyped ==
  [][call'.result # OK =>
       /\ call'.result \in ErrorCode \cup HostRejections
       /\ UNCHANGED <<escrow, lamports>>]_vars

\* C9 as stated: in every reachable state of a live record with no approved
\* milestone, cancel_job by the stored recruiter commits, returns at least
\* the sum of the milestone amounts to the recruiter and destroys the record.
CancelAlwaysAvailable ==
  Live /\ ~AnyApproved(escrow) =>
    LET out == Run(cancel_job(escrow.recruiter))
    IN /\ out.err = OK
       /\ out.escrow = Closed
       /\ out.lamports[ESCROW] = 0
       /\ out.lamports[escrow.recruiter] - lamports[escrow.recruiter]
            >= TrueSum(escrow.milestone_amounts, Unclaimed(escrow))

\* C9 amended: the same, in the states where the record's held balance is at
\* least the sum of the milestone amounts; the recruiter then receives the
\* whole held balance.
CancelAvailableWhenFunded ==
  /\ Live /\ ~AnyApproved(escrow)
  /\ lamports[ESCROW] >= TrueSum(escrow.milestone_amounts, Unclaimed(escrow))
  => LET out == Run(cancel_job(escrow.recruiter))
     IN /\ out.err = OK
        /\ out.escrow = Closed
        /\ out.lamports = Paid(escrow.recruiter, lamports[ESCROW])
        /\ out.lamports[ESCROW] = 0
        /\ out.lamports[escrow.recruiter] - lamports[escrow.recruiter]
             >= TrueSum(escrow.milestone_amounts, Unclaimed(escrow))

CancelledAfterWithdraw ==
  /\ ~Live
  /\ call = [op |-> "cancel_job", result |-> OK]
  /\ lamports[PLATFORM_AUTHORITY] > 0
  /\ lamports[ESCROW] = 0

\* C10: round trip.  Right after a committed create_job_escrow, cancel_job by
\* the recruiter commits, refunds exactly the sum of the three amounts plus
\* the rent deposit, which restores the recruiter's balance of before the
\* create, and destroys the record.
CreateCancelRoundTrip ==
  Live /\ call = [op |-> "create_job_escrow", result |-> OK] =>
    LET out == Run(cancel_job(escrow.recruiter))
    IN /\ out.err = OK
       /\ out.escrow = Closed
       /\ out.lamports[escrow.recruiter] - lamports[escrow.recruiter]
            = TrueSum(escrow.milestone_amounts, Slots) + RentExempt
       /\ out.lamports[escrow.recruiter] = hist.before_create

\* C11: role authorization.  In every reachable state and for every index,
\* approve_milestone signed by a key other than the stored recruiter and
\* claim_milestone signed by a key other than the stored freelancer are
\* rejected (by has_one on a live record) and change no flag and no balance.
RoleAuthorization ==
  \A k \in Keys, milestone_index \in IndexInputs :
    /\ k # escrow.recruiter =>
         LET out == Run(approve_milestone(k, milestone_index))
         IN Rejected(out) /\ (Live => out.err = HAS_ONE)
    /\ k # escrow.freelancer =>
         LET out == Run(claim_milestone(k, milestone_index))
         IN Rejected(out) /\ (Live => out.err = HAS_ONE)

\* a claim by a wrong signer was rejected although a slot was ready to be
\* claimed and one to be approved
WrongSignerRejected ==
  /\ Live
  /\ call = [op |-> "claim_milestone", result |-> HAS_ONE]
  /\ \E i \in Slots : escrow.milestones_approved[i] /\ ~escrow.milestones_claimed[i]
  /\ \E i \in Slots : ~escrow.milestones_approved[i]

\* C12: platform authorization.  On a live record, platform_withdraw and
\* platform_emergency_close signed by any key other than PLATFORM_AUTHORITY
\* (the recruiter and the freelancer included) fail with
\* UnauthorizedPlatformAccess and leave the record and all balances unchanged.
PlatformAuthorization ==
  Live =>
    \A k \in Keys \ {PLATFORM_AUTHORITY} :
      /\ \A amount \in WithdrawInputs :
           LET out == Run(platform_withdraw(k, amount))
           IN Rejected(out) /\ out.err = "UnauthorizedPlatformAccess"
      /\ LET out == Run(platform_emergency_close(k))
         IN Rejected(out) /\ out.err = "UnauthorizedPlatformAccess"

UnauthorizedCloseRejected ==
  /\ Live
  /\ call = [op |-> "platform_emergency_close",
             result |-> "UnauthorizedPlatformAccess"]
  /\ lamports[ESCROW] > 0
  /\ {escrow.recruiter, escrow.freelancer} \cap {PLATFORM_AUTHORITY} = {}

\* C13: on a live record platform_withdraw(amount) by the platform authority
\* fails with InsufficientEscrowBalance, changing nothing, exactly when amount
\* exceeds the lamports the record holds; otherwise (amount equal to the
\* balance included) it commits and moves exactly amount from the record to
\* the platform authority.
WithdrawBoundedByBalance ==
  Live =>
    \A amount \in WithdrawInputs :
      LET out == Run(platform_withdraw(PLATFORM_AUTHORITY, amount))
      IN IF amount > lamports[ESCROW]
         THEN Rejected(out) /\ out.err = "InsufficientEscrowBalance"
         ELSE out.err = OK /\ out.lamports = Paid(PLATFORM_AUTHORITY, amount)

\* the whole balance of a live record has been withdrawn
WithdrewWholeBalance ==
  /\ Live
  /\ call = [op |-> "platform_withdraw", result |-> OK]
  /\ lamports[ESCROW] = 0
  /\ lamports[PLATFORM_AUTHORITY] = hist.deposited
  /\ hist.deposited > 0

\* C14: frame of platform_withdraw.  A committed platform_withdraw changes
\* only the lamports of the record and of the platform authority: the
\* record's flags, amounts, recruiter, freelancer and job_id are unchanged
\* and the record stays live.
WithdrawFrame ==
  Live =>
    \A amount \in WithdrawInputs :
      LET out == Run(platform_withdraw(PLATFORM_AUTHORITY, amount))
      IN out.err = OK =>
           /\ out.escrow = escrow
           /\ out.escrow.initialized
           /\ \A a \in Accounts \ {ESCROW, PLATFORM_AUTHORITY} :
                out.lamports[a] = lamports[a]

\* after a committed platform_withdraw the record is live, its flags show
\* nothing claimed, and it holds less than its unclaimed amounts
WithdrawLeftShortfall ==
  /\ Live
  /\ overflow_checks
  /\ call = [op |-> "platform_withdraw", result |-> OK]
  /\ Unclaimed(escrow) = Slots
  /\ lamports[ESCROW] < TrueSum(escrow.milestone_amounts, Unclaimed(escrow))

\* the caller can pay the allocation deposit of a new record at a free address
CanAllocate(recruiter) == ~Live /\ lamports[recruiter] >= RentExempt

\* C15 as stated: create_job_escrow fails with InvalidMilestoneAmount if any
\* of the three amounts is 0 and with JobIdTooLong if job_id is longer than
\* 50, creating no record and moving no value; every existing record has all
\* its amounts positive.
CreateValidationUnordered ==
  /\ \A recruiter \in CreateSigners, job_id \in JobIds,
        freelancer \in FreelancerInputs, milestone_amounts \in [Slots -> AmountInputs] :
       LET out == Run(create_job_escrow(recruiter, job_id, freelancer, milestone_amounts))
       IN CanAllocate(recruiter) =>
            /\ (\E i \in Slots : milestone_amounts[i] = 0) =>
                 Rejected(out) /\ out.err = "InvalidMilestoneAmount"
            /\ Len(job_id) > MaxJobIdLen =>
                 Rejected(out) /\ out.err = "JobIdTooLong"
  /\ Live => \A i \in Slots : escrow.milestone_amounts[i] > 0

\* C15: create validation in the order of the code.  A create_job_escrow
\* with a zero amount or a job_id longer than 50 never commits; at a free
\* address, with the deposit payable, it fails with JobIdTooLong if job_id is
\* longer than 50 and otherwise with InvalidMilestoneAmount if any amount is
\* 0; every existing record has all its amounts positive.
CreateValidation ==
  /\ \A recruiter \in CreateSigners, job_id \in JobIds,
        freelancer \in FreelancerInputs, milestone_amounts \in [Slots -> AmountInputs] :
       LET out == Run(create_job_escrow(recruiter, job_id, freelancer, milestone_amounts))
           zero == \E i \in Slots : milestone_amounts[i] = 0
           long == Len(job_id) > MaxJobIdLen
       IN /\ zero \/ long => Rejected(out)
          /\ CanAllocate(recruiter) /\ long => out.err = "JobIdTooLong"
          /\ CanAllocate(recruiter) /\ zero /\ ~long =>
               out.err = "InvalidMilestoneAmount"
  /\ Live => \A i \in Slots : escrow.milestone_amounts[i] > 0

\* a create was refused for its job_id at a free address, after an earlier
\* record had lived and been paid out, with the deposit still payable
CreateRefusedForJobId ==
  /\ call = [op |-> "create_job_escrow", result |-> "JobIdTooLong"]
  /\ CanAllocate("rec")
  /\ hist.paid_out > 0

\* C16: index bounds.  approve_milestone(k) and claim_milestone(k) with
\* k >= 3 never commit, whoever calls and whatever the flags; called on a
\* live record by the stored recruiter (approve) or the stored freelancer
\* (claim) they fail with InvalidMilestoneIndex, and no flag and no balance
\* changes.
IndexBounds ==
  \A k \in OutOfRangeInputs :
    /\ \A caller \in Keys :
         /\ Rejected(Run(approve_milestone(caller, k)))
         /\ Rejected(Run(claim_milestone(caller, k)))
    /\ Live =>
         /\ Run(approve_milestone(escrow.recruiter, k)).err = "InvalidMilestoneIndex"
         /\ Run(claim_milestone(escrow.freelancer, k)).err = "InvalidMilestoneIndex"

\* an out-of-range claim was refused on a record with every milestone
\* approved and some milestone still unclaimed
OutOfRangeClaimRefused ==
  /\ Live
  /\ call = [op |-> "claim_milestone", result |-> "InvalidMilestoneIndex"]
  /\ \A i \in Slots : escrow.milestones_approved[i]
  /\ \E i \in Slots : ~escrow.milestones_claimed[i]

\* C17: monotonic flags and immutable fields.  In every step that starts and
\* ends with the record live, no approved or claimed flag goes from true to
\* false and recruiter, freelancer, job_id and milestone_amounts keep their
\* values; and an approve_milestone(i) by the stored recruiter on an already
\* approved milestone fails with MilestoneAlreadyApproved, so a flag is set
\* at most once.
FlagsMonotonic ==
  [][ Live /\ Live' =>
        /\ \A i \in Slots :
             /\ escrow.milestones_approved[i] => escrow'.milestones_approved[i]
             /\ escrow.milestones_claimed[i] => escrow'.milestones_claimed[i]
             /\ escrow.milestones_approved[i] =>
                  LET out == Run(approve_milestone(escrow.recruiter, i))
                  IN Rejected(out) /\ out.err = "MilestoneAlreadyApproved"
        /\ escrow'.recruiter = escrow.recruiter
        /\ escrow'.freelancer = escrow.freelancer
        /\ escrow'.job_id = escrow.job_id
        /\ escrow'.milestone_amounts = escrow.milestone_amounts ]_vars

\* a repeated approval was refused on a record with a claimed milestone
RepeatedApprovalRefused ==
  /\ Live
  /\ call = [op |-> "approve_milestone", result |-> "MilestoneAlreadyApproved"]
  /\ \E i \in Slots : escrow.milestones_claimed[i]

\* C18: emergency close from any state.  On every live record, whatever its
\* flags and balance, platform_emergency_close by the platform authority
\* commits, moves the record's whole balance (rent deposit included) to the
\* platform authority and nothing to recruiter or freelancer, leaves the
\* record with 0 lamports and destroys it.
EmergencyCloseAlwaysAvailable ==
  Live =>
    LET out == Run(platform_emergency_close(PLATFORM_AUTHORITY))
    IN /\ out.err = OK
       /\ out.escrow = Closed
       /\ out.lamports = Paid(PLATFORM_AUTHORITY, lamports[ESCROW])
       /\ out.lamports[ESCROW] = 0

\* a record with a claimed milestone was closed by the platform authority,
\* which received lamports
EmergencyClosedAfterClaim ==
  /\ ~Live
  /\ call = [op |-> "platform_emergency_close", result |-> OK]
  /\ \E i \in Slots : hist.claim_ok[i] > 0
  /\ lamports[PLATFORM_AUTHORITY] > 0

AllClaimed == \A i \in Slots : escrow.milestones_claimed[i]

\* C19 as stated: under weak fairness of the recruiter's approvals and the
\* freelancer's claims, every live record is eventually closed or has all
\* three milestones claimed.
EventualSettlement == Live ~> (~Live \/ AllClaimed)

\* the record does not hold, on top of its rent deposit, the amount of any
\* unclaimed milestone
Drained ==
  \A i \in Unclaimed(escrow) :
    lamports[ESCROW] < escrow.milestone_amounts[i] + RentExempt

\* C19: under weak fairness of the recruiter's approvals and the
\* freelancer's claims, every live record is eventually closed, or has all
\* three milestones claimed, or holds too little to pay any unclaimed
\* milestone.
EventualSettlementOrDrained == Live ~> (~Live \/ AllClaimed \/ Drained)

\* a live record with every milestone approved and none claimed, emptied by
\* platform_withdraw in the overflow-checking build
DrainedBeforeAnyClaim ==
  /\ Live
  /\ overflow_checks
  /\ call = [op |-> "platform_withdraw", result |-> OK]
  /\ \A i \in Slots : escrow.milestones_approved[i]
  /\ Unclaimed(escrow) = Slots
  /\ lamports[ESCROW] = 0

\* C20: exact total at creation.  After a committed create_job_escrow the
\* record holds, on top of its rent deposit, the true integer sum of its
\* three milestone amounts; a create whose true sum exceeds the largest u64
\* never commits with the wrapped sum locked.
ExactTotalAtCreation ==
  call = [op |-> "create_job_escrow", result |-> OK] =>
    lamports[ESCROW] - RentExempt = TrueSum(escrow.milestone_amounts, Slots)

====
